---------------------------- MODULE Spec2Model ----------------------------
(***************************************************************************)
(* Model of oap_supervisor/agent.py: the supervisor graph factory graph(), *)
(* the child-graph builder make_child_graphs with its name sanitizer, the  *)
(* prompt builder make_prompt, and OAPRemoteGraph._sanitize_config.        *)
(*                                                                         *)
(* Python values are modelled as follows.                                  *)
(*   dict        a function whose domain is the set of keys                *)
(*   list        a sequence                                                *)
(*   str         a TLA+ string; an agent name, on which the code works     *)
(*               character by character, is a sequence of one-character    *)
(*               strings                                                   *)
(*   None        the value None below, which no modelled string equals     *)
(***************************************************************************)
EXTENDS Naturals, Sequences, FiniteSets, TLC

VARIABLES
    pc,                     \* position of a graph() call
    config,                 \* graph(): the RunnableConfig argument
    cfg,                    \* graph(): the parsed GraphConfigPydantic
    supabase_access_token,  \* graph(): the token read from the config
    child_graphs,           \* graph(): the result of make_child_graphs
    supervisor,             \* graph(): the arguments given to create_supervisor
    exception,              \* graph(): the exception that ended the call
    sn_pc,                  \* position of a sanitize_name call
    name,                   \* sanitize_name: the argument
    sanitized,              \* sanitize_name: the local of the same name
    sc_pc,                  \* position of an _sanitize_config call
    parent_sanitized,       \* _sanitize_config: what super() returned
    sc_sanitized            \* _sanitize_config: the dict being returned

vars == <<pc, config, cfg, supabase_access_token, child_graphs, supervisor,
          exception, sn_pc, name, sanitized, sc_pc, parent_sanitized,
          sc_sanitized>>

graph_vars == <<pc, config, cfg, supabase_access_token, child_graphs,
                supervisor, exception>>
sn_vars == <<sn_pc, name, sanitized>>
sc_vars == <<sc_pc, parent_sanitized, sc_sanitized>>

---------------------------------------------------------------------------
(* Bounds of the model *)

MaxAgents == 2
MaxNameLen == 3

---------------------------------------------------------------------------
(* Python values *)

None == "<None>"

EmptyDict == [k \in {} |-> None]

\* dict.get(key, default)
Get(d, key, default) == IF key \in DOMAIN d THEN d[key] ELSE default

\* truth value of an Optional[str]: None and "" are false
Truthy(v) == v # None /\ v # ""

---------------------------------------------------------------------------
(* Module constants *)

\* The text of the source; its two backquotes are written as apostrophes,
\* since a TLA+ string cannot hold a backquote.
UNEDITABLE_SYSTEM_PROMPT ==
    "\nYou can invoke sub-agents by calling tools in this format:\n"
    \o "'delegate_to_<name>(user_query)'--replacing <name> with the agent's name--\n"
    \o "to hand off control. Otherwise, answer the user yourself.\n"
    \o "\n"
    \o "The user will see all messages and tool calls produced in the conversation, \n"
    \o "along with all returned from the sub-agents. With this in mind, ensure you \n"
    \o "never repeat any information already presented to the user.\n"

DEFAULT_SUPERVISOR_PROMPT ==
    "You are a supervisor AI overseeing a team of specialist agents. \n"
    \o "For each incoming user message, decide if it should be handled by one of your agents. \n"

\* GraphConfigPydantic.model_fields.keys()
GraphConfigFields == {"agents", "system_prompt"}

\* GraphConfigPydantic(**kwargs) on keyword arguments that validate: a field
\* takes its keyword's value, or its default; other keywords are ignored.
GraphConfigPydantic(kwargs) ==
    [agents        |-> Get(kwargs, "agents", <<>>),
     system_prompt |-> Get(kwargs, "system_prompt", DEFAULT_SUPERVISOR_PROMPT)]

---------------------------------------------------------------------------
(* make_child_graphs *)

\* name.replace(" ", "_")
ReplaceSpaces(s) == [i \in 1..Len(s) |-> IF s[i] = " " THEN "_" ELSE s[i]]

\* a class that lost its backslash, as the pattern r"[<|\/>]" would give
DisallowedClass_NoBackslash == {"<", "|", "/", ">"}

\* the character class of the pattern r"[<|\\/>]"
DisallowedClass == {"<", "|", "\\", "/", ">"}

IsAllowed(c) == c \notin DisallowedClass

\* re.sub(r"[<|\\/>]", "", s): every match of the class is deleted
RemoveDisallowed(s) == SelectSeq(s, IsAllowed)

sanitize_name(n) == RemoveDisallowed(ReplaceSpaces(n))

\* headers built whenever the token is not None, the empty token included
MakeHeaders_NotNone(access_token) ==
    IF access_token # None
    THEN ("Authorization" :> ("Bearer " \o access_token))
         @@ ("x-supabase-access-token" :> access_token)
    ELSE [k \in {} |-> None]

\* the headers dict built from the access token
MakeHeaders(access_token) ==
    IF Truthy(access_token)
    THEN ("Authorization" :> ("Bearer " \o access_token))
         @@ ("x-supabase-access-token" :> access_token)
    ELSE EmptyDict

\* OAPRemoteGraph(agent_id, url=..., name=..., headers=...): the handle
\* records its constructor arguments
OAPRemoteGraph(assistant_id, url, graph_name, headers) ==
    [assistant_id |-> assistant_id, url |-> url, name |-> graph_name,
     headers |-> headers]

\* a wrapper that passes the agent's name on without sanitizing it
create_remote_graph_wrapper_RawName(agent, headers) ==
    OAPRemoteGraph(agent.agent_id, agent.deployment_url, agent.name, headers)

create_remote_graph_wrapper(agent, headers) ==
    OAPRemoteGraph(agent.agent_id, agent.deployment_url,
                   sanitize_name(agent.name), headers)

make_child_graphs(c, access_token) ==
    IF c.agents = <<>>
    THEN <<>>
    ELSE LET headers == MakeHeaders(access_token)
         IN  [i \in 1..Len(c.agents) |->
                 create_remote_graph_wrapper(c.agents[i], headers)]

\* make_prompt on a cfg whose system_prompt is a str
make_prompt(c) == c.system_prompt \o UNEDITABLE_SYSTEM_PROMPT

\* make_model: the model handle
make_model(c) == [model |-> "gpt-4o"]

---------------------------------------------------------------------------
(* Inputs of graph() *)

AgentIds == {"agent-1", "agent-2"}
DeploymentUrls == {"https://one.example", "https://two.example"}

\* agent names of a request: plain, with a space, with an underscore where
\* the other has a space, and with disallowed characters
AgentNames ==
    { <<"a">>,
      <<"a", " ", "b">>,
      <<"a", "_", "b">>,
      <<"<", "a", "/", "b", ">">>,
      <<"|", "a", "\\">> }

AgentsConfig ==
    [agent_id : AgentIds, deployment_url : DeploymentUrls, name : AgentNames]

AgentLists == UNION { [1..n -> AgentsConfig] : n \in 0..MaxAgents }

SystemPrompts == {None, "", "Route every question."}
AccessTokens == {None, "", "tok"}

\* the "configurable" dicts of a request: each key is absent or present
AgentsEntries == {EmptyDict} \cup { "agents" :> l : l \in AgentLists }
PromptEntries == {EmptyDict} \cup { "system_prompt" :> p : p \in SystemPrompts }
TokenEntries ==
    {EmptyDict} \cup { "x-supabase-access-token" :> t : t \in AccessTokens }

Configurables ==
    { a @@ p @@ t : a \in AgentsEntries, p \in PromptEntries, t \in TokenEntries }

Configs == {EmptyDict} \cup { "configurable" :> c : c \in Configurables }

---------------------------------------------------------------------------
(* graph(config) *)

GraphInit ==
    /\ pc = "idle"
    /\ config = None
    /\ cfg = None
    /\ supabase_access_token = None
    /\ child_graphs = None
    /\ supervisor = None
    /\ exception = None

\* graph is called with a config
CallGraph ==
    /\ pc = "idle"
    /\ \E c \in Configs : config' = c
    /\ pc' = "parse"
    /\ UNCHANGED <<cfg, supabase_access_token, child_graphs, supervisor, exception>>
    /\ UNCHANGED <<sn_vars, sc_vars>>

\* cfg = GraphConfigPydantic(**config.get("configurable", {}))
ParseConfig ==
    /\ pc = "parse"
    /\ cfg' = GraphConfigPydantic(Get(config, "configurable", EmptyDict))
    /\ pc' = "token"
    /\ UNCHANGED <<config, supabase_access_token, child_graphs, supervisor, exception>>
    /\ UNCHANGED <<sn_vars, sc_vars>>

\* supabase_access_token = config.get("configurable", {}).get("x-supabase-access-token")
ReadToken ==
    /\ pc = "token"
    /\ supabase_access_token' =
           Get(Get(config, "configurable", EmptyDict), "x-supabase-access-token", None)
    /\ pc' = "children"
    /\ UNCHANGED <<config, cfg, child_graphs, supervisor, exception>>
    /\ UNCHANGED <<sn_vars, sc_vars>>

\* child_graphs = make_child_graphs(cfg, supabase_access_token)
MakeChildGraphs ==
    /\ pc = "children"
    /\ child_graphs' = make_child_graphs(cfg, supabase_access_token)
    /\ pc' = "supervisor"
    /\ UNCHANGED <<config, cfg, supabase_access_token, supervisor, exception>>
    /\ UNCHANGED <<sn_vars, sc_vars>>

\* prompt=make_prompt(cfg) with cfg.system_prompt None: None + str raises
\* TypeError, and graph() ends without calling create_supervisor
MakePromptRaises ==
    /\ pc = "supervisor"
    /\ cfg.system_prompt = None
    /\ exception' = "TypeError"
    /\ pc' = "raised"
    /\ UNCHANGED <<config, cfg, supabase_access_token, child_graphs, supervisor>>
    /\ UNCHANGED <<sn_vars, sc_vars>>

\* return create_supervisor(child_graphs, model=make_model(cfg),
\*                          prompt=make_prompt(cfg), ...)
CreateSupervisor ==
    /\ pc = "supervisor"
    /\ cfg.system_prompt # None
    /\ supervisor' = [agents              |-> child_graphs,
                      model               |-> make_model(cfg),
                      prompt              |-> make_prompt(cfg),
                      config_schema       |-> GraphConfigFields,
                      handoff_tool_prefix |-> "delegate_to_",
                      output_mode         |-> "full_history"]
    /\ pc' = "returned"
    /\ UNCHANGED <<config, cfg, supabase_access_token, child_graphs, exception>>
    /\ UNCHANGED <<sn_vars, sc_vars>>

Next ==
    \/ CallGraph
    \/ ParseConfig
    \/ ReadToken
    \/ MakeChildGraphs
    \/ MakePromptRaises
    \/ CreateSupervisor

---------------------------------------------------------------------------
(* sanitize_name(name), step by step *)

Chars == {" ", "_", "<", ">", "|", "\\", "/", "a", "b"}

Names == UNION { [1..n -> Chars] : n \in 0..MaxNameLen }

SnIdle == sn_pc = "idle" /\ name = None /\ sanitized = None

\* sanitize_name is called with a name
CallSanitizeName ==
    /\ sn_pc = "idle"
    /\ \E n \in Names : name' = n
    /\ sn_pc' = "replace"
    /\ UNCHANGED <<sanitized, graph_vars, sc_vars>>

\* sanitized = name.replace(" ", "_")
ReplaceStep ==
    /\ sn_pc = "replace"
    /\ sanitized' = ReplaceSpaces(name)
    /\ sn_pc' = "sub"
    /\ UNCHANGED <<name, graph_vars, sc_vars>>

\* sanitized = re.sub(r"[<|\\/>]", "", sanitized); return sanitized
SubStep ==
    /\ sn_pc = "sub"
    /\ sanitized' = RemoveDisallowed(sanitized)
    /\ sn_pc' = "returned"
    /\ UNCHANGED <<name, graph_vars, sc_vars>>

NextSanitizeName ==
    \/ CallSanitizeName
    \/ ReplaceStep
    \/ SubStep

---------------------------------------------------------------------------
(* OAPRemoteGraph._sanitize_config(config) *)

\* a filter that knows only the system_prompt field
FilterFields_PromptOnly(d) == [k \in (DOMAIN d) \ {"system_prompt"} |-> d[k]]

\* the comprehension {k: v for k, v in d.items() if k not in graph_config_fields}
FilterFields(d) == [k \in (DOMAIN d) \ GraphConfigFields |-> d[k]]

ConfigurableKeys ==
    {"agents", "system_prompt", "x-supabase-access-token", "thread_id"}
MetadataKeys == {"agents", "system_prompt", "owner"}
DictValues == {"v1", "v2"}

\* the dicts with keys among K
DictsOver(K) == UNION { [S -> DictValues] : S \in SUBSET K }

ConfigurableEntries ==
    {EmptyDict} \cup { "configurable" :> d : d \in DictsOver(ConfigurableKeys) }
MetadataEntries ==
    {EmptyDict} \cup { "metadata" :> d : d \in DictsOver(MetadataKeys) }
TagsEntries == {EmptyDict, "tags" :> <<"tag">>}
RecursionLimitEntries == {EmptyDict, "recursion_limit" :> 25}

\* what the parent class's _sanitize_config can return
ParentSanitized ==
    { c @@ m @@ t @@ r : c \in ConfigurableEntries, m \in MetadataEntries,
                         t \in TagsEntries, r \in RecursionLimitEntries }

ScIdle == sc_pc = "idle" /\ parent_sanitized = None /\ sc_sanitized = None

\* sanitized = super()._sanitize_config(config)
SuperSanitize ==
    /\ sc_pc = "idle"
    /\ \E s \in ParentSanitized : parent_sanitized' = s /\ sc_sanitized' = s
    /\ sc_pc' = "configurable"
    /\ UNCHANGED <<graph_vars, sn_vars>>

\* if "configurable" in sanitized: sanitized["configurable"] = {...}
FilterConfigurable ==
    /\ sc_pc = "configurable"
    /\ sc_sanitized' =
           IF "configurable" \in DOMAIN sc_sanitized
           THEN [sc_sanitized EXCEPT
                    !["configurable"] = FilterFields(sc_sanitized["configurable"])]
           ELSE sc_sanitized
    /\ sc_pc' = "metadata"
    /\ UNCHANGED <<parent_sanitized, graph_vars, sn_vars>>

\* a metadata step that filters sanitized.get("metadata", {}) and stores the
\* result whether or not the key was there
FilterMetadata_AlwaysSet ==
    /\ sc_pc = "metadata"
    /\ sc_sanitized' =
           ("metadata" :> [k \in (DOMAIN Get(sc_sanitized, "metadata", <<>>))
                                  \ GraphConfigFields |->
                              sc_sanitized["metadata"][k]])
           @@ sc_sanitized
    /\ sc_pc' = "returned"
    /\ UNCHANGED <<parent_sanitized, graph_vars, sn_vars>>

\* if "metadata" in sanitized: sanitized["metadata"] = {...}; return sanitized
FilterMetadata ==
    /\ sc_pc = "metadata"
    /\ sc_sanitized' =
           IF "metadata" \in DOMAIN sc_sanitized
           THEN [sc_sanitized EXCEPT
                    !["metadata"] = FilterFields(sc_sanitized["metadata"])]
           ELSE sc_sanitized
    /\ sc_pc' = "returned"
    /\ UNCHANGED <<parent_sanitized, graph_vars, sn_vars>>

NextSanitizeConfig ==
    \/ SuperSanitize
    \/ FilterConfigurable
    \/ FilterMetadata

---------------------------------------------------------------------------
(* Specifications *)

Init == GraphInit /\ SnIdle /\ ScIdle

\* calls of graph()
Spec == Init /\ [][Next]_vars

\* calls of sanitize_name
SpecSanitizeName == Init /\ [][NextSanitizeName]_vars

\* calls of OAPRemoteGraph._sanitize_config
SpecSanitizeConfig == Init /\ [][NextSanitizeConfig]_vars

---------------------------------------------------------------------------
(* Properties *)

\* the request's "configurable" dict, as graph() reads it
Configurable == Get(config, "configurable", EmptyDict)

\* graph() has called make_child_graphs
ChildrenMade == pc \in {"supervisor", "returned", "raised"}

\* graph() has ended
GraphEnded == pc \in {"returned", "raised"}

\* a name with every space turned into an underscore and every one of
\* < > | \ / left out, character by character
RECURSIVE Cleaned(_)
Cleaned(s) ==
    IF s = <<>>
    THEN <<>>
    ELSE LET c == Head(s)
         IN  (IF c = " " THEN <<"_">>
              ELSE IF c \in {"<", ">", "|", "\\", "/"} THEN <<>>
              ELSE <<c>>) \o Cleaned(Tail(s))

Returned == sc_pc = "returned"

FilteredKeys == {"configurable", "metadata"} \cap DOMAIN sc_sanitized

\* C1: the config returned by _sanitize_config has neither "agents" nor
\* "system_prompt" as a key of its "configurable" dict or of its "metadata"
\* dict.
C1_NoSupervisorFields ==
    Returned =>
        \A m \in FilteredKeys :
            (DOMAIN sc_sanitized[m]) \cap {"agents", "system_prompt"} = {}

\* a call returned a config whose two dicts both held supervisor fields
C1_Witness ==
    /\ Returned
    /\ {"configurable", "metadata"} \subseteq DOMAIN parent_sanitized
    /\ {"agents", "system_prompt", "x-supabase-access-token"}
           \subseteq DOMAIN parent_sanitized["configurable"]
    /\ "system_prompt" \in DOMAIN parent_sanitized["metadata"]

\* C2: _sanitize_config only removes the two field keys: the result has the
\* top-level keys the parent returned (an absent "configurable" or "metadata"
\* stays absent), every other top-level entry is the parent's, and in
\* "configurable" and "metadata" every key other than "agents" and
\* "system_prompt" is kept with its value.
C2_OnlyFieldsRemoved ==
    Returned =>
        /\ DOMAIN sc_sanitized = DOMAIN parent_sanitized
        /\ \A k \in (DOMAIN parent_sanitized) \ {"configurable", "metadata"} :
               sc_sanitized[k] = parent_sanitized[k]
        /\ \A m \in FilteredKeys :
               /\ \A k \in (DOMAIN parent_sanitized[m]) \ {"agents", "system_prompt"} :
                      /\ k \in DOMAIN sc_sanitized[m]
                      /\ sc_sanitized[m][k] = parent_sanitized[m][k]
               /\ DOMAIN sc_sanitized[m] \subseteq DOMAIN parent_sanitized[m]

\* a call returned a config that held the token and a field key in
\* "configurable", had other top-level entries, and had no "metadata"
C2_Witness ==
    /\ Returned
    /\ "metadata" \notin DOMAIN parent_sanitized
    /\ {"configurable", "tags", "recursion_limit"} \subseteq DOMAIN parent_sanitized
    /\ {"x-supabase-access-token", "agents", "thread_id"}
           \subseteq DOMAIN parent_sanitized["configurable"]

\* C3: for a config with a non-empty agents list, make_child_graphs returns
\* one handle per agent, in the order of cfg.agents, the i-th built from
\* the i-th agent's agent_id, deployment_url and sanitized name.
C3_OneHandlePerAgent ==
    (ChildrenMade /\ cfg.agents # <<>>) =>
        /\ Len(child_graphs) = Len(cfg.agents)
        /\ \A i \in 1..Len(cfg.agents) :
               /\ child_graphs[i].assistant_id = cfg.agents[i].agent_id
               /\ child_graphs[i].url = cfg.agents[i].deployment_url
               /\ child_graphs[i].name = Cleaned(cfg.agents[i].name)

\* two agents that differ in id, url and name, the second name changed by
\* sanitization, were turned into child graphs
C3_Witness ==
    /\ ChildrenMade
    /\ Len(cfg.agents) = 2
    /\ cfg.agents[1].agent_id # cfg.agents[2].agent_id
    /\ cfg.agents[1].deployment_url # cfg.agents[2].deployment_url
    /\ cfg.agents[1].name = <<"a">>
    /\ cfg.agents[2].name = <<"<", "a", "/", "b", ">">>
    /\ Len(child_graphs) = 2

\* C4: for every accepted configuration the prompt graph() gives the
\* supervisor is the configured system_prompt followed by
\* UNEDITABLE_SYSTEM_PROMPT.
C4_PromptEndsUneditable ==
    GraphEnded =>
        /\ pc = "returned"
        /\ supervisor.prompt = cfg.system_prompt \o UNEDITABLE_SYSTEM_PROMPT

\* C5: sanitize_name returns the name with each space replaced by one
\* underscore and each of < > | \ / deleted, the other characters kept in
\* order; the result holds no space and none of the five characters.
C5_SanitizedName ==
    sn_pc = "returned" =>
        /\ sanitized = Cleaned(name)
        /\ \A i \in 1..Len(sanitized) :
               sanitized[i] \notin {" ", "<", ">", "|", "\\", "/"}

\* a name holding a space, a disallowed character and a kept character
\* was sanitized
C5_Witness ==
    /\ sn_pc = "returned"
    /\ \E i, j, k \in 1..Len(name) :
           /\ name[i] = " "
           /\ name[j] \in {"<", ">", "|", "\\", "/"}
           /\ name[k] \in {"a", "b"}

\* the headers the claim gives for a token
HeadersFor(t) ==
    IF t = None \/ t = ""
    THEN EmptyDict
    ELSE [k \in {"Authorization", "x-supabase-access-token"} |->
             IF k = "Authorization" THEN "Bearer " \o t ELSE t]

\* C6: every child graph of one make_child_graphs call has the same headers:
\* empty when the token is None or empty, else exactly Authorization
\* "Bearer <token>" and x-supabase-access-token <token>; graph() passes the
\* value of configurable["x-supabase-access-token"], or None when absent.
C6_Headers ==
    ChildrenMade =>
        /\ supabase_access_token =
               (IF "x-supabase-access-token" \in DOMAIN Configurable
                THEN Configurable["x-supabase-access-token"]
                ELSE None)
        /\ \A i \in 1..Len(child_graphs) :
               child_graphs[i].headers = HeadersFor(supabase_access_token)

\* two child graphs were built for a request that carries a token
C6_Witness ==
    /\ ChildrenMade
    /\ Len(child_graphs) = 2
    /\ supabase_access_token = "tok"
    /\ "Authorization" \in DOMAIN child_graphs[2].headers

\* C7: when "system_prompt" is absent from configurable or is None, graph()
\* raises nothing and the prompt is DEFAULT_SUPERVISOR_PROMPT followed by
\* UNEDITABLE_SYSTEM_PROMPT.
C7_DefaultPrompt ==
    (/\ GraphEnded
     /\ \/ "system_prompt" \notin DOMAIN Configurable
        \/ Configurable["system_prompt"] = None) =>
        /\ pc = "returned"
        /\ supervisor.prompt = DEFAULT_SUPERVISOR_PROMPT \o UNEDITABLE_SYSTEM_PROMPT

\* C8: when "agents" is absent or the empty list, make_child_graphs returns
\* the empty list whatever the token is, and graph() builds the supervisor
\* with zero child graphs.
C8_NoAgents ==
    (/\ GraphEnded
     /\ \/ "agents" \notin DOMAIN Configurable
        \/ Configurable["agents"] = <<>>) =>
        /\ child_graphs = <<>>
        /\ pc = "returned"
        /\ supervisor.agents = <<>>

\* C9: agents whose configured names differ get child graphs whose names
\* differ.
C9_DistinctNames ==
    ChildrenMade =>
        \A i, j \in 1..Len(cfg.agents) :
            cfg.agents[i].name # cfg.agents[j].name =>
                child_graphs[i].name # child_graphs[j].name

=============================================================================
